---- MODULE Spec2Model ----
(***************************************************************************)
(* Model of src/main.py: the silver price sentinel.                        *)
(*                                                                         *)
(* main() builds a MonitorState, seeds the set of seen announcement links  *)
(* and then loops: monitoring_cycle, error handling, sleep.                *)
(* monitoring_cycle samples the COMEX and Shanghai prices, keeps the       *)
(* failure statistics, sends the hourly report and the threshold alert     *)
(* (rebasing the benchmark) and scans the CME news feed.                   *)
(***************************************************************************)
EXTENDS Integers, Sequences, FiniteSets, TLC

VARIABLES
    state,            \* the MonitorState object (main.py:284-293)
    last_seen_links,  \* set of announcement links already examined (main.py:479)
    pc,               \* position of main(): "seed", "cycle", "cooldown", "sleep", "stopped", "killed"
    tg_configured,    \* TG_TOKEN and TG_CHAT_ID are both set (main.py:22-23)
    now,              \* the last value time.time() returned, in seconds since process start
    feed,             \* the announcements on the news source, most recent first
    outbox,           \* messages handed to send_telegram by the last step, in order
    cycle,            \* how the last call of monitoring_cycle went: inputs, path, where it stopped
    stats_printed,    \* the final statistics have been written to stdout (main.py:506-509)
    at_start,         \* links the monitored feed listed when the process started
    alert_base,       \* price of the last threshold alert of a cycle that ran to its
                      \* end, or the first price sampled if there was none yet
    probe             \* a single call of a function taken on its own: the function,
                      \* what the outside world answers, and what the call returned

vars == <<state, last_seen_links, pc, tg_configured, now, feed, outbox, cycle,
          stats_printed, at_start, alert_base, probe>>

\* Python's None, for the optional numbers (prices, benchmark)
None == -1

(***************************************************************************)
(* Configuration constants of the program.                                 *)
(***************************************************************************)
REPORT_INTERVAL == 3600
max_retries == 3
FAILURE_ALERT_AT == 5
EXCEPTION_ALERT_ABOVE == 10
NEWS_WINDOW == 10

(***************************************************************************)
(* Bounds of the model.                                                    *)
(***************************************************************************)
\* time.time() is read on a grid of TimeStep seconds, up to MaxTime
TimeStep == 3600
MaxTime == 7200
\* the loop is followed until total_checks reaches MaxChecks
MaxChecks == 4
\* and, while both markets are down or quiet, until it reaches MaxOutageChecks
MaxOutageChecks == 12
\* number of announcements the news source publishes while the process runs
MaxNews == 2

Abs(x) == IF x < 0 THEN -x ELSE x

(***************************************************************************)
(* Prices.  A COMEX price is a double; the model writes it as its value in *)
(* cents together with the representation error of that double, in units   *)
(* of 2^-54/100 dollars (ReprErr).  PRICE_ALERT_THRESHOLD = 0.3 is the     *)
(* double 0.3, which is 30 cents plus ThresholdErr of the same unit.       *)
(* The subtraction of two prices within a factor 2 of each other is exact  *)
(* in binary floating point, so abs(a - b) >= 0.3 is decided by the cents  *)
(* unless they differ by exactly 30, and then by the representation errors.*)
(***************************************************************************)
ComexPrices == {3000, 3005, 3035, 3050}

ReprErr == [p \in ComexPrices |->
              CASE p = 3000 -> 0
                [] p = 3005 -> 1280
                [] p = 3035 -> 2560
                [] p = 3050 -> 0]

PRICE_ALERT_THRESHOLD_CENTS == 30
ThresholdErr == -20

\* diff = current_comex - state.benchmark_price, as <<cents, error units>>
PriceDiff(a, b) == <<a - b, ReprErr[a] - ReprErr[b]>>

\* diff > 0
DiffPositive(d) == d[1] > 0 \/ (d[1] = 0 /\ d[2] > 0)

\* abs(diff) >= PRICE_ALERT_THRESHOLD
BreachesThreshold(d) ==
    LET hi == IF DiffPositive(d) THEN d[1] ELSE -d[1]
        lo == IF DiffPositive(d) THEN d[2] ELSE -d[2]
    IN  \/ hi > PRICE_ALERT_THRESHOLD_CENTS
        \/ hi = PRICE_ALERT_THRESHOLD_CENTS /\ lo >= ThresholdErr

(***************************************************************************)
(* Telegram.  Every attempt of requests.post is answered with HTTP 200,    *)
(* with another status, or fails with a connection error.                  *)
(***************************************************************************)
PostAnswers == {"200", "500", "error"}
NetAnswers == [1..max_retries -> PostAnswers]

Message(kind, body) == [kind |-> kind, body |-> body]

\* (mutant) a connection error of requests.post is not caught
RECURSIVE PostLoop_uncaught(_, _)
PostLoop_uncaught(answers, n) ==
    IF n > max_retries THEN <<FALSE, max_retries, FALSE>>
    ELSE IF answers[n] = "200" THEN <<TRUE, n, FALSE>>
    ELSE IF answers[n] = "error" THEN <<FALSE, n, TRUE>>
    ELSE PostLoop_uncaught(answers, n + 1)

\* lines 64-77, the attempts of the retry loop from attempt number n (1-based)
\* on: <<returned value, number of posts made, an exception left the loop>>.
\* A status other than 200 goes on with the next attempt (line 71), a
\* connection error is caught and goes on with the next attempt (lines 72-75).
RECURSIVE PostLoop(_, _)
PostLoop(answers, n) ==
    IF n > max_retries THEN <<FALSE, max_retries, FALSE>>
    ELSE IF answers[n] = "200" THEN <<TRUE, n, FALSE>>
    ELSE PostLoop(answers, n + 1)

\* send_telegram(message, silent): the record of one call, with the value it
\* returned (ok), the posts it made and the answers they got
send_telegram(message, silent, configured, answers) ==
    IF ~configured
    THEN [msg |-> message, silent |-> silent, ok |-> FALSE, posts |-> 0,
          answered |-> <<>>, raised |-> FALSE]
    ELSE LET r == PostLoop(answers, 1)
         IN  [msg |-> message, silent |-> silent, ok |-> r[1], posts |-> r[2],
              answered |-> SubSeq(answers, 1, r[2]), raised |-> r[3]]

Kinds(box) == {box[i].msg.kind : i \in DOMAIN box}
CountKind(box, k) == Cardinality({i \in DOMAIN box : box[i].msg.kind = k})

(***************************************************************************)
(* Shanghai price: the two providers and the fallback chain.  A provider   *)
(* answers with a price (yuan per kg) or with nothing usable.              *)
(***************************************************************************)
ProviderAnswers == {None, 4900, 7200}

\* the sanity check 5000 < price < 8000 of both providers
InShfeRange(price) == price # None /\ 5000 < price /\ price < 8000

get_shfe_price_sina(answer) == IF InShfeRange(answer) THEN answer ELSE None
get_shfe_price_eastmoney(answer) == IF InShfeRange(answer) THEN answer ELSE None

\* Python's truth value of a provider's result (lines 176 and 182)
Truthy(price) == price # None /\ price # 0

\* (mutant) the secondary provider is asked first
shfe_fallback_east_first(sina, east) ==
    IF Truthy(get_shfe_price_eastmoney(east))
    THEN [price |-> get_shfe_price_eastmoney(east), called |-> <<"eastmoney">>]
    ELSE IF Truthy(get_shfe_price_sina(sina))
    THEN [price |-> get_shfe_price_sina(sina), called |-> <<"eastmoney", "sina">>]
    ELSE [price |-> None, called |-> <<"eastmoney", "sina">>]

\* lines 175-185: the value get_shfe_price returns and the providers it called
shfe_fallback(sina, east) ==
    IF Truthy(get_shfe_price_sina(sina))
    THEN [price |-> get_shfe_price_sina(sina), called |-> <<"sina">>]
    ELSE IF Truthy(get_shfe_price_eastmoney(east))
    THEN [price |-> get_shfe_price_eastmoney(east), called |-> <<"sina", "eastmoney">>]
    ELSE [price |-> None, called |-> <<"sina", "eastmoney">>]

get_shfe_price(sina, east) == shfe_fallback(sina, east).price

(***************************************************************************)
(* MonitorState.  Its fields last_comex and last_shfe are written at the   *)
(* end of a cycle and read nowhere; the model keeps the prices of the      *)
(* cycle in the variable cycle instead.                                    *)
(***************************************************************************)
MonitorState(t) ==
    [benchmark_price |-> None, last_report_time |-> t,
     consecutive_failures |-> 0, total_checks |-> 0, successful_checks |-> 0]

\* (mutant) a good sample does not reset the failure count
update_success_keeps_failures(st) ==
    [st EXCEPT !.total_checks = @ + 1,
               !.successful_checks = @ + 1]

update_success(st) ==
    [st EXCEPT !.consecutive_failures = 0,
               !.total_checks = @ + 1,
               !.successful_checks = @ + 1]

update_failure(st) ==
    [st EXCEPT !.consecutive_failures = @ + 1,
               !.total_checks = @ + 1]

(***************************************************************************)
(* Announcements.  A title is the sequence of its characters; an entry of  *)
(* the feed has a title and a link (its identity), and attrs names the     *)
(* attributes the parsed entry really has: reading a missing one raises.   *)
(***************************************************************************)
UpperCase == <<"A","B","C","D","E","F","G","H","I","J","K","L","M","N","O","P","Q","R","S","T","U","V","W","X","Y","Z">>
LowerCase == <<"a","b","c","d","e","f","g","h","i","j","k","l","m","n","o","p","q","r","s","t","u","v","w","x","y","z">>

\* str.lower()
LowerChar(c) ==
    IF \E i \in DOMAIN UpperCase : UpperCase[i] = c
    THEN LowerCase[CHOOSE i \in DOMAIN UpperCase : UpperCase[i] = c]
    ELSE c
Lower(title) == [i \in DOMAIN title |-> LowerChar(title[i])]

\* k in s, for strings
Contains(k, s) ==
    \E i \in 1..(Len(s) - Len(k) + 1) : SubSeq(s, i, i + Len(k) - 1) = k

silver_keywords == {
    <<"s","i","l","v","e","r">>,
    <<"w","h","i","t","e"," ","m","e","t","a","l">>,
    <<"a","g">> }

margin_keywords == {
    <<"m","a","r","g","i","n">>,
    <<"p","e","r","f","o","r","m","a","n","c","e"," ","b","o","n","d">>,
    <<"c","o","l","l","a","t","e","r","a","l">>,
    <<"i","n","i","t","i","a","l"," ","m","a","r","g","i","n">>,
    <<"m","a","i","n","t","e","n","a","n","c","e"," ","m","a","r","g","i","n">>,
    <<"m","a","r","g","i","n"," ","i","n","c","r","e","a","s","e">>,
    <<"m","a","r","g","i","n"," ","d","e","c","r","e","a","s","e">> }

has_silver(title) == \E k \in silver_keywords : Contains(k, Lower(title))
has_margin(title) == \E k \in margin_keywords : Contains(k, Lower(title))

\* the titles of the model
TitleSilverFutures == <<"S","i","l","v","e","r"," ","F","u","t","u","r","e","s">>
TitleAgPerformanceBond == <<"A","g"," ","P","e","r","f","o","r","m","a","n","c","e"," ","B","o","n","d">>
TitleSilverMargin == <<"S","I","L","V","E","R"," ","M","a","r","g","i","n">>
TitleGoldMargin == <<"G","o","l","d"," ","M","a","r","g","i","n">>

Titles == {TitleSilverFutures, TitleAgPerformanceBond, TitleSilverMargin,
           TitleGoldMargin}

\* the classification of every title of the model, computed once
TitleHasSilver == [t \in Titles |-> has_silver(t)]
TitleHasMargin == [t \in Titles |-> has_margin(t)]

Entry(title, link, attrs) == [title |-> title, link |-> link, attrs |-> attrs]
WellFormed(e) == {"title", "link"} \subseteq e.attrs

\* (mutant) only the entries that do not qualify are recorded as seen
ExamineEntry_forgets_alerted(e, seen, new_alerts) ==
    IF e.link \notin seen
    THEN IF TitleHasSilver[e.title] /\ TitleHasMargin[e.title]
         THEN [seen |-> seen, new_alerts |-> Append(new_alerts, e.link)]
         ELSE [seen |-> seen \cup {e.link}, new_alerts |-> new_alerts]
    ELSE [seen |-> seen, new_alerts |-> new_alerts]

\* lines 236-264, for one entry that has its title and link: the seen-set
\* and the list of collected alerts after the entry was examined
ExamineEntry(e, seen, new_alerts) ==
    IF e.link \notin seen
    THEN [seen |-> seen \cup {e.link},
          new_alerts |-> IF TitleHasSilver[e.title] /\ TitleHasMargin[e.title]
                         THEN Append(new_alerts, e.link)
                         ELSE new_alerts]
    ELSE [seen |-> seen, new_alerts |-> new_alerts]

\* the result of check_cme_news: the seen-set it returns (the one it was
\* given, mutated in place) and the calls of send_telegram it made
RECURSIVE ScanEntries(_, _, _, _, _, _)
ScanEntries(entries, i, seen, new_alerts, configured, answers) ==
    IF i > Len(entries) \/ i > NEWS_WINDOW
    THEN \* the loop is over: every collected alert is sent
         [seen |-> seen,
          sent |-> [j \in DOMAIN new_alerts |->
                      send_telegram(Message("announcement", new_alerts[j]),
                                    FALSE, configured, answers)],
          raised |-> FALSE]
    ELSE IF ~WellFormed(entries[i])
    THEN \* entry.title or entry.link raises: the except clause returns
         [seen |-> seen, sent |-> <<>>, raised |-> TRUE]
    ELSE LET x == ExamineEntry(entries[i], seen, new_alerts)
         IN  ScanEntries(entries, i + 1, x.seen, x.new_alerts, configured, answers)

check_cme_news(last_seen, entries, configured, answers) ==
    ScanEntries(entries, 1, last_seen, <<>>, configured, answers)

(***************************************************************************)
(* The news source.  Both RSS urls search the source; the url of the       *)
(* seeding in main() asks for "Silver" OR "Margin", the url of             *)
(* check_cme_news for "Silver" OR "Margin" OR "Performance Bond".          *)
(***************************************************************************)
seed_rss_terms == {
    <<"s","i","l","v","e","r">>,
    <<"m","a","r","g","i","n">> }

news_rss_terms == {
    <<"s","i","l","v","e","r">>,
    <<"m","a","r","g","i","n">>,
    <<"p","e","r","f","o","r","m","a","n","c","e"," ","b","o","n","d">> }

TitleInSeedFeed == [t \in Titles |-> \E k \in seed_rss_terms : Contains(k, Lower(t))]
TitleInNewsFeed == [t \in Titles |-> \E k \in news_rss_terms : Contains(k, Lower(t))]

InSeedFeed(e) == TitleInSeedFeed[e.title]
InNewsFeed(e) == TitleInNewsFeed[e.title]

\* feedparser.parse(rss_url).entries: the listed announcements, or nothing
\* when the source cannot be reached
ParseSeedFeed(source, reachable) ==
    IF reachable THEN SelectSeq(source, InSeedFeed) ELSE <<>>
ParseNewsFeed(source, reachable) ==
    IF reachable THEN SelectSeq(source, InNewsFeed) ELSE <<>>

\* the i-th announcement the source publishes
\* (every third one reaches the feed without its title)
NewsTitles == <<TitleAgPerformanceBond, TitleSilverMargin, TitleGoldMargin, TitleSilverFutures>>
NewsItem(i) ==
    Entry(NewsTitles[((i - 1) % 4) + 1], i,
          IF i % 3 = 0 THEN {"link"} ELSE {"title", "link"})

RECURSIVE Published(_)
Published(n) == IF n = 0 THEN <<>> ELSE <<NewsItem(n)>> \o Published(n - 1)

Links(entries) == {entries[i].link : i \in DOMAIN entries}

\* the seeding loop of main(): entry.link of every entry, until one raises
RECURSIVE SeedLinks(_, _, _)
SeedLinks(entries, i, seen) ==
    IF i > Len(entries) THEN seen
    ELSE IF "link" \notin entries[i].attrs THEN seen
    ELSE SeedLinks(entries, i + 1, seen \cup {entries[i].link})

(***************************************************************************)
(* monitoring_cycle.  The inputs are what the calls of one cycle return:   *)
(* the COMEX price, the answers of the two Shanghai providers, the clock,  *)
(* the parsed news feed and the answers of Telegram.  stop says where the  *)
(* call ends: "return" when it runs to its end, otherwise the statement at *)
(* which an exception or a KeyboardInterrupt leaves it:                    *)
(*   "fetch"        while fetching, before the statistics are touched      *)
(*   "failure_log"  at the diagnostic of a failed sample (line 337)        *)
(*   "status_log"   at the status line of a good sample (line 363)         *)
(*   "alert_log"    after the threshold alert was sent (line 417)          *)
(* The converted Shanghai price and the spread only appear in the texts.   *)
(***************************************************************************)
StopPoints == {"fetch", "failure_log", "status_log", "alert_log"}

\* (mutant) the warning is sent from the fifth failure on
failure_alert_from_five_on(st, configured, answers) ==
    IF st.consecutive_failures >= FAILURE_ALERT_AT
    THEN <<send_telegram(Message("degraded", <<>>), FALSE, configured, answers)>>
    ELSE <<>>

\* lines 340-345: the warning after consecutive failed samples
failure_alert(st, configured, answers) ==
    IF st.consecutive_failures = FAILURE_ALERT_AT
    THEN <<send_telegram(Message("degraded", <<>>), FALSE, configured, answers)>>
    ELSE <<>>

\* (mutant) an unset benchmark starts from a fixed price
init_benchmark_fixed(st, current_comex) ==
    IF st.benchmark_price = None
    THEN [st EXCEPT !.benchmark_price = 3000]
    ELSE st

\* lines 355-357: the first good sample becomes the benchmark
init_benchmark(st, current_comex) ==
    IF st.benchmark_price = None
    THEN [st EXCEPT !.benchmark_price = current_comex]
    ELSE st

\* (mutant) the report waits for more than REPORT_INTERVAL
hourly_report_late(st, current_comex, current_time, configured, answers) ==
    IF (current_time - st.last_report_time) > REPORT_INTERVAL
    THEN [state |-> [st EXCEPT !.last_report_time = current_time],
          sent |-> <<send_telegram(
                       Message("report",
                               [price |-> current_comex,
                                benchmark |-> st.benchmark_price,
                                change |-> current_comex - st.benchmark_price]),
                       TRUE, configured, answers)>>]
    ELSE [state |-> st, sent |-> <<>>]

\* (mutant) the hourly report also rebases the benchmark
hourly_report_rebases(st, current_comex, current_time, configured, answers) ==
    IF (current_time - st.last_report_time) >= REPORT_INTERVAL
    THEN [state |-> [st EXCEPT !.last_report_time = current_time,
                               !.benchmark_price = current_comex],
          sent |-> <<send_telegram(
                       Message("report",
                               [price |-> current_comex,
                                benchmark |-> st.benchmark_price,
                                change |-> current_comex - st.benchmark_price]),
                       TRUE, configured, answers)>>]
    ELSE [state |-> st, sent |-> <<>>]

\* lines 372-394: the hourly report
hourly_report(st, current_comex, current_time, configured, answers) ==
    IF (current_time - st.last_report_time) >= REPORT_INTERVAL
    THEN [state |-> [st EXCEPT !.last_report_time = current_time],
          sent |-> <<send_telegram(
                       Message("report",
                               [price |-> current_comex,
                                benchmark |-> st.benchmark_price,
                                change |-> current_comex - st.benchmark_price]),
                       TRUE, configured, answers)>>]
    ELSE [state |-> st, sent |-> <<>>]

\* (mutant) the benchmark is rebased only when the alert was delivered
threshold_alert_rebases_if_delivered(st, current_comex, configured, answers) ==
    LET diff == PriceDiff(current_comex, st.benchmark_price)
        sent == send_telegram(
                    Message("threshold",
                            [trend |-> IF DiffPositive(diff) THEN "rise" ELSE "fall",
                             price |-> current_comex,
                             benchmark |-> st.benchmark_price,
                             change |-> diff[1]]),
                    FALSE, configured, answers)
    IN  IF BreachesThreshold(diff)
        THEN [state |-> IF sent.ok THEN [st EXCEPT !.benchmark_price = current_comex] ELSE st,
              sent |-> <<sent>>]
        ELSE [state |-> st, sent |-> <<>>]

\* (mutant) the alert is sent but the benchmark is not rebased
threshold_alert_keeps_benchmark(st, current_comex, configured, answers) ==
    LET diff == PriceDiff(current_comex, st.benchmark_price)
    IN  IF BreachesThreshold(diff)
        THEN [state |-> st,
              sent |-> <<send_telegram(
                           Message("threshold",
                                   [trend |-> IF DiffPositive(diff) THEN "rise" ELSE "fall",
                                    price |-> current_comex,
                                    benchmark |-> st.benchmark_price,
                                    change |-> diff[1]]),
                           FALSE, configured, answers)>>]
        ELSE [state |-> st, sent |-> <<>>]

\* lines 397-420: the threshold alert and the rebase of the benchmark
threshold_alert(st, current_comex, configured, answers) ==
    LET diff == PriceDiff(current_comex, st.benchmark_price)
    IN  IF BreachesThreshold(diff)
        THEN [state |-> [st EXCEPT !.benchmark_price = current_comex],
              sent |-> <<send_telegram(
                           Message("threshold",
                                   [trend |-> IF DiffPositive(diff) THEN "rise" ELSE "fall",
                                    price |-> current_comex,
                                    benchmark |-> st.benchmark_price,
                                    change |-> diff[1]]),
                           FALSE, configured, answers)>>]
        ELSE [state |-> st, sent |-> <<>>]

\* (mutant) a failed sample does not return early: the announcements are
\* still scanned
monitoring_cycle_news_always(st, seen, current_comex, current_shfe, current_time, entries, configured, answers, stop) ==
    LET failed == current_comex = None \/ current_shfe = None
        st_f == update_failure(st)
        st_2 == init_benchmark(update_success(st), current_comex)
        report == hourly_report(st_2, current_comex, current_time, configured, answers)
        alert == threshold_alert(report.state, current_comex, configured, answers)
        news == check_cme_news(seen, entries, configured, answers)
    IN  CASE stop = "fetch" ->
               [state |-> st, seen |-> seen, outbox |-> <<>>, path |-> "none"]
          [] stop # "fetch" /\ failed /\ stop = "failure_log" ->
               [state |-> st_f, seen |-> seen, outbox |-> <<>>, path |-> "failure"]
          [] stop # "fetch" /\ failed /\ stop # "failure_log" ->
               [state |-> st_f, seen |-> news.seen,
                outbox |-> failure_alert(st_f, configured, answers) \o news.sent,
                path |-> "failure"]
          [] stop # "fetch" /\ ~failed /\ stop = "status_log" ->
               [state |-> st_2, seen |-> seen, outbox |-> <<>>, path |-> "success"]
          [] stop # "fetch" /\ ~failed /\ stop = "alert_log" ->
               [state |-> report.state, seen |-> seen,
                outbox |-> report.sent \o alert.sent, path |-> "success"]
          [] OTHER ->
               [state |-> alert.state, seen |-> news.seen,
                outbox |-> report.sent \o alert.sent \o news.sent, path |-> "success"]

\* (mutant) the threshold alert is evaluated before the hourly report
monitoring_cycle_alert_first(st, seen, current_comex, current_shfe, current_time, entries, configured, answers, stop) ==
    LET failed == current_comex = None \/ current_shfe = None
        st_f == update_failure(st)
        st_2 == init_benchmark(update_success(st), current_comex)
        alert == threshold_alert(st_2, current_comex, configured, answers)
        report == hourly_report(alert.state, current_comex, current_time, configured, answers)
        news == check_cme_news(seen, entries, configured, answers)
    IN  CASE stop = "fetch" ->
               [state |-> st, seen |-> seen, outbox |-> <<>>, path |-> "none"]
          [] stop # "fetch" /\ failed /\ stop = "failure_log" ->
               [state |-> st_f, seen |-> seen, outbox |-> <<>>, path |-> "failure"]
          [] stop # "fetch" /\ failed /\ stop # "failure_log" ->
               [state |-> st_f, seen |-> seen,
                outbox |-> failure_alert(st_f, configured, answers), path |-> "failure"]
          [] stop # "fetch" /\ ~failed /\ stop = "status_log" ->
               [state |-> st_2, seen |-> seen, outbox |-> <<>>, path |-> "success"]
          [] stop # "fetch" /\ ~failed /\ stop = "alert_log" ->
               [state |-> st_2, seen |-> seen, outbox |-> alert.sent, path |-> "success"]
          [] OTHER ->
               [state |-> report.state, seen |-> news.seen,
                outbox |-> alert.sent \o report.sent \o news.sent, path |-> "success"]

monitoring_cycle(st, seen, current_comex, current_shfe, current_time, entries, configured, answers, stop) ==
    LET failed == current_comex = None \/ current_shfe = None
        \* --- 2. the sample is incomplete
        st_f == update_failure(st)
        \* --- 3. statistics and benchmark
        st_2 == init_benchmark(update_success(st), current_comex)
        \* --- 5. hourly report
        report == hourly_report(st_2, current_comex, current_time, configured, answers)
        \* --- 6. threshold alert
        alert == threshold_alert(report.state, current_comex, configured, answers)
        \* --- 7. announcements
        news == check_cme_news(seen, entries, configured, answers)
    IN  CASE stop = "fetch" ->
               [state |-> st, seen |-> seen, outbox |-> <<>>, path |-> "none"]
          [] stop # "fetch" /\ failed /\ stop = "failure_log" ->
               [state |-> st_f, seen |-> seen, outbox |-> <<>>, path |-> "failure"]
          [] stop # "fetch" /\ failed /\ stop # "failure_log" ->
               [state |-> st_f, seen |-> seen,
                outbox |-> failure_alert(st_f, configured, answers), path |-> "failure"]
          [] stop # "fetch" /\ ~failed /\ stop = "status_log" ->
               [state |-> st_2, seen |-> seen, outbox |-> <<>>, path |-> "success"]
          [] stop # "fetch" /\ ~failed /\ stop = "alert_log" ->
               \* the alert is sent, the benchmark is not yet rebased
               [state |-> report.state, seen |-> seen,
                outbox |-> report.sent \o alert.sent, path |-> "success"]
          [] OTHER ->
               [state |-> alert.state, seen |-> news.seen,
                outbox |-> report.sent \o alert.sent \o news.sent, path |-> "success"]

\* the statement named by stop is executed by this cycle
StopsAt(st, current_comex, current_shfe, stop) ==
    LET failed == current_comex = None \/ current_shfe = None
        bench == IF st.benchmark_price = None THEN current_comex ELSE st.benchmark_price
    IN  CASE stop = "fetch" -> TRUE
          [] stop = "failure_log" -> failed
          [] stop = "status_log" -> ~failed
          [] stop = "alert_log" ->
               ~failed /\ BreachesThreshold(PriceDiff(current_comex, bench))
          [] OTHER -> FALSE

(***************************************************************************)
(* The inputs of the model.                                                *)
(***************************************************************************)
\* the values time.time() can return; the wall clock is taken not to step back,
\* so every reading is at least the previous one
Grid == {k * TimeStep : k \in 0..(MaxTime \div TimeStep)}

\* the answers of Telegram to the posts of one step
NetSamples == {<<"200", "200", "200">>, <<"500", "error", "500">>}

ComexAnswers == ComexPrices \cup {None}

\* the Shanghai prices the fallback chain can return
ShfeAnswers == {get_shfe_price(sina, east) : sina \in ProviderAnswers, east \in ProviderAnswers}

\* what the outside world can answer during the cycles of a run
World == [comex |-> ComexAnswers, shfe |-> ShfeAnswers, clock |-> Grid,
          reachable |-> BOOLEAN, net |-> NetSamples, stops |-> StopPoints,
          max_checks |-> MaxChecks]

\* a long run in which the COMEX price is 30.00 or missing, the clock stands
\* still, the news source is down and Telegram answers at once
Outage == [comex |-> {None, 3000}, shfe |-> ShfeAnswers, clock |-> {0},
           reachable |-> {FALSE}, net |-> {<<"200", "200", "200">>},
           stops |-> {"fetch", "failure_log"}, max_checks |-> MaxOutageChecks]

\* no function is taken on its own
NoProbe == [fn |-> "none"]

NoCycle == [path |-> "none", ended |-> "none", stop |-> "none", comex |-> None]

\* the first price sampled together with a Shanghai price
FirstSample(base, path, current_comex) ==
    IF base = None /\ path = "success" THEN current_comex ELSE base

(***************************************************************************)
(* main().                                                                 *)
(***************************************************************************)
\* the state when main() has built MonitorState (line 475): the startup
\* notification was sent if Telegram is configured
Init ==
    /\ tg_configured \in BOOLEAN
    /\ now = 0
    /\ state = MonitorState(0)
    /\ last_seen_links = {}
    /\ pc = "seed"
    /\ \E n \in 0..(MaxNews - 1) : feed = Published(n)
    /\ \E answers \in NetSamples :
         outbox = IF tg_configured
                  THEN <<send_telegram(Message("startup", <<>>), FALSE, TRUE, answers)>>
                  ELSE <<>>
    /\ cycle = NoCycle
    /\ stats_printed = FALSE
    /\ at_start = Links(ParseNewsFeed(feed, TRUE))
    /\ alert_base = None
    /\ probe = NoProbe

\* the news source publishes one more announcement
Publish ==
    /\ pc = "cycle"
    /\ Len(feed) < MaxNews
    /\ feed' = <<NewsItem(Len(feed) + 1)>> \o feed
    /\ UNCHANGED <<state, last_seen_links, pc, tg_configured, now, outbox, cycle,
                   stats_printed, at_start, alert_base>>
    /\ UNCHANGED probe

\* lines 477-492: the seen-set is filled from the seeding feed
SeedSeenLinks ==
    /\ pc = "seed"
    /\ \E reachable \in BOOLEAN :
         last_seen_links' = SeedLinks(ParseSeedFeed(feed, reachable), 1, last_seen_links)
    /\ pc' = "cycle"
    /\ outbox' = <<>>
    /\ UNCHANGED <<state, tg_configured, now, feed, cycle, stats_printed, at_start, alert_base>>
    /\ UNCHANGED probe

\* line 500: monitoring_cycle returns
CycleReturnsIn(env) ==
    /\ pc = "cycle"
    /\ state.total_checks < env.max_checks
    /\ \E current_comex \in env.comex, current_shfe \in env.shfe,
          current_time \in env.clock, reachable \in env.reachable, answers \in env.net :
         /\ current_time >= now
         /\ LET r == monitoring_cycle(state, last_seen_links, current_comex, current_shfe,
                                      current_time, ParseNewsFeed(feed, reachable),
                                      tg_configured, answers, "return")
            IN  /\ state' = r.state
                /\ last_seen_links' = r.seen
                /\ outbox' = r.outbox
                /\ cycle' = [path |-> r.path, ended |-> "return", stop |-> "return",
                             comex |-> current_comex]
                /\ alert_base' = IF "threshold" \in Kinds(r.outbox) THEN current_comex
                                 ELSE FirstSample(alert_base, r.path, current_comex)
                /\ now' = current_time
    /\ pc' = "sleep"
    /\ UNCHANGED <<tg_configured, feed, stats_printed, at_start>>
    /\ UNCHANGED probe

\* lines 524-537: monitoring_cycle raises, the loop catches the exception
CycleRaisesIn(env) ==
    /\ pc = "cycle"
    /\ state.total_checks < env.max_checks
    /\ \E current_comex \in env.comex, current_shfe \in env.shfe,
          current_time \in env.clock, answers \in env.net, stop \in env.stops :
         /\ current_time >= now
         /\ LET r == monitoring_cycle(state, last_seen_links, current_comex, current_shfe,
                                      current_time, <<>>, tg_configured, answers, stop)
            IN  /\ StopsAt(state, current_comex, current_shfe, stop)
                /\ state' = r.state
                /\ last_seen_links' = r.seen
                /\ outbox' = r.outbox \o
                       (IF r.state.consecutive_failures > EXCEPTION_ALERT_ABOVE
                        THEN <<send_telegram(Message("exception", <<>>), FALSE,
                                             tg_configured, answers)>>
                        ELSE <<>>)
                /\ cycle' = [path |-> r.path, ended |-> "raise", stop |-> stop,
                             comex |-> current_comex]
                /\ alert_base' = FirstSample(alert_base, r.path, current_comex)
                /\ now' = current_time
    /\ pc' = "cooldown"
    /\ UNCHANGED <<tg_configured, feed, stats_printed, at_start>>
    /\ UNCHANGED probe

\* lines 502-522: KeyboardInterrupt inside monitoring_cycle
CycleInterruptedIn(env) ==
    /\ pc = "cycle"
    /\ state.total_checks < env.max_checks
    /\ \E current_comex \in env.comex, current_shfe \in env.shfe,
          current_time \in env.clock, answers \in env.net, stop \in env.stops :
         /\ current_time >= now
         /\ LET r == monitoring_cycle(state, last_seen_links, current_comex, current_shfe,
                                      current_time, <<>>, tg_configured, answers, stop)
            IN  /\ StopsAt(state, current_comex, current_shfe, stop)
                /\ state' = r.state
                /\ last_seen_links' = r.seen
                /\ outbox' = r.outbox \o
                       (IF tg_configured
                        THEN <<send_telegram(
                                 Message("shutdown",
                                         [total_checks |-> r.state.total_checks,
                                          successful_checks |-> r.state.successful_checks]),
                                 FALSE, tg_configured, answers)>>
                        ELSE <<>>)
                /\ cycle' = [path |-> r.path, ended |-> "interrupt", stop |-> stop,
                             comex |-> current_comex]
                /\ alert_base' = FirstSample(alert_base, r.path, current_comex)
                /\ now' = current_time
    /\ stats_printed' = TRUE
    /\ pc' = "stopped"
    /\ UNCHANGED <<tg_configured, feed, at_start>>
    /\ UNCHANGED probe

\* (mutant) the except clause leaves the loop after its pause
CooldownDone_leaves_loop ==
    /\ pc = "cooldown"
    /\ pc' = "stopped"
    /\ outbox' = <<>>
    /\ cycle' = NoCycle
    /\ UNCHANGED <<state, last_seen_links, tg_configured, now, feed, stats_printed, at_start, alert_base>>
    /\ UNCHANGED probe

\* line 537: the pause after a caught exception is over
CooldownDone ==
    /\ pc = "cooldown"
    /\ pc' = "sleep"
    /\ outbox' = <<>>
    /\ cycle' = NoCycle
    /\ UNCHANGED <<state, last_seen_links, tg_configured, now, feed, stats_printed, at_start, alert_base>>
    /\ UNCHANGED probe

\* line 543: the pause between two cycles is over
SleepDone ==
    /\ pc = "sleep"
    /\ pc' = "cycle"
    /\ outbox' = <<>>
    /\ cycle' = NoCycle
    /\ UNCHANGED <<state, last_seen_links, tg_configured, now, feed, stats_printed, at_start, alert_base>>
    /\ UNCHANGED probe

\* KeyboardInterrupt during time.sleep(10) of the except clause (line 537):
\* no handler encloses it, the exception leaves main()
InterruptInCooldown ==
    /\ pc = "cooldown"
    /\ pc' = "killed"
    /\ outbox' = <<>>
    /\ cycle' = NoCycle
    /\ UNCHANGED <<state, last_seen_links, tg_configured, now, feed, stats_printed, at_start, alert_base>>
    /\ UNCHANGED probe

\* KeyboardInterrupt during time.sleep(CHECK_INTERVAL) (line 543), outside the try
InterruptInSleep ==
    /\ pc = "sleep"
    /\ pc' = "killed"
    /\ outbox' = <<>>
    /\ cycle' = NoCycle
    /\ UNCHANGED <<state, last_seen_links, tg_configured, now, feed, stats_printed, at_start, alert_base>>
    /\ UNCHANGED probe

CycleReturns == CycleReturnsIn(World)
CycleRaises == CycleRaisesIn(World)
CycleInterrupted == CycleInterruptedIn(World)

Next ==
    \/ Publish
    \/ SeedSeenLinks
    \/ CycleReturns
    \/ CycleRaises
    \/ CycleInterrupted
    \/ CooldownDone
    \/ SleepDone
    \/ InterruptInCooldown
    \/ InterruptInSleep

Spec == Init /\ [][Next]_vars

\* the loop during an outage
OutageCycleReturns == CycleReturnsIn(Outage)
OutageCycleRaises == CycleRaisesIn(Outage)

OutageNext ==
    \/ SeedSeenLinks
    \/ OutageCycleReturns
    \/ OutageCycleRaises
    \/ CooldownDone
    \/ SleepDone

OutageSpec == Init /\ [][OutageNext]_vars

TypeOK ==
    /\ pc \in {"seed", "cycle", "cooldown", "sleep", "stopped", "killed", "fresh", "scanned",
              "rescanned", "call", "returned"}
    /\ state.total_checks \in Nat
    /\ now \in 0..MaxTime

(***************************************************************************)
(* check_cme_news on its own: it is applied to feed snapshots of any       *)
(* content, starting from any seen-set.  pc is "fresh" when the snapshot   *)
(* has not been processed yet, "scanned" when it was processed once and    *)
(* "rescanned" when it was processed again.                                *)
(***************************************************************************)
\* longest feed snapshot
MaxSnapshot == 2

SnapshotEntries == {
    Entry(TitleSilverMargin, 1, {"title", "link"}),
    Entry(TitleSilverFutures, 2, {"title", "link"}),
    Entry(TitleGoldMargin, 3, {"title", "link"}),
    Entry(TitleSilverFutures, 1, {"title", "link"}),
    Entry(TitleAgPerformanceBond, 4, {"link"}),
    Entry(TitleSilverMargin, 5, {"title"}) }

Snapshots == UNION {[1..n -> SnapshotEntries] : n \in 0..MaxSnapshot}

NewsInit ==
    /\ tg_configured \in BOOLEAN
    /\ feed \in Snapshots
    /\ last_seen_links \in SUBSET (1..4)
    /\ pc = "fresh"
    /\ now = 0
    /\ state = MonitorState(0)
    /\ outbox = <<>>
    /\ cycle = NoCycle
    /\ stats_printed = FALSE
    /\ at_start = {}
    /\ alert_base = None
    /\ probe = NoProbe

\* one call of check_cme_news on the snapshot
CheckNews ==
    /\ pc \in {"fresh", "scanned", "rescanned"}
    /\ \E answers \in NetSamples :
         LET r == check_cme_news(last_seen_links, ParseNewsFeed(feed, TRUE),
                                 tg_configured, answers)
         IN  /\ last_seen_links' = r.seen
             /\ outbox' = r.sent
             /\ cycle' = [NoCycle EXCEPT !.path = "news",
                                         !.ended = IF r.raised THEN "raise" ELSE "return"]
    /\ pc' = IF pc = "fresh" THEN "scanned" ELSE "rescanned"
    /\ UNCHANGED <<state, tg_configured, now, feed, stats_printed, at_start, alert_base>>
    /\ UNCHANGED probe

\* the feed shows another snapshot
NextSnapshot ==
    /\ pc \in {"scanned", "rescanned"}
    /\ \E f \in Snapshots : f # feed /\ feed' = f
    /\ pc' = "fresh"
    /\ outbox' = <<>>
    /\ cycle' = NoCycle
    /\ UNCHANGED <<state, last_seen_links, tg_configured, now, stats_printed, at_start,
                   alert_base>>
    /\ UNCHANGED probe

NewsNext == CheckNews \/ NextSnapshot

NewsSpec == NewsInit /\ [][NewsNext]_vars

(***************************************************************************)
(* send_telegram and get_shfe_price on their own: one call, with any       *)
(* answers of Telegram or of the two price providers.  pc is "call" before *)
(* the call and "returned" after it.                                       *)
(***************************************************************************)
\* what a price provider can answer: nothing usable, or a price
ProviderSamples == {None, 0, 4900, 5000, 5001, 7200, 7999, 8000, 9000}

SendCalls ==
    {[fn |-> "send_telegram", configured |-> c, silent |-> s, answers |-> a, ret |-> <<>>] :
        c \in BOOLEAN, s \in BOOLEAN, a \in NetAnswers}

ShfeCalls ==
    {[fn |-> "get_shfe_price", sina |-> a, east |-> b, ret |-> <<>>] :
        a \in ProviderSamples, b \in ProviderSamples}

CallInit ==
    /\ probe \in SendCalls \cup ShfeCalls
    /\ pc = "call"
    /\ tg_configured = (probe.fn = "send_telegram" /\ probe.configured)
    /\ now = 0
    /\ state = MonitorState(0)
    /\ last_seen_links = {}
    /\ feed = <<>>
    /\ outbox = <<>>
    /\ cycle = NoCycle
    /\ stats_printed = FALSE
    /\ at_start = {}
    /\ alert_base = None

\* one call of send_telegram
CallSendTelegram ==
    /\ pc = "call"
    /\ probe.fn = "send_telegram"
    /\ probe' = [probe EXCEPT !.ret = send_telegram(Message("probe", <<>>), probe.silent,
                                                    tg_configured, probe.answers)]
    /\ pc' = "returned"
    /\ UNCHANGED <<state, last_seen_links, tg_configured, now, feed, outbox, cycle,
                   stats_printed, at_start, alert_base>>

\* one call of get_shfe_price
CallGetShfePrice ==
    /\ pc = "call"
    /\ probe.fn = "get_shfe_price"
    /\ probe' = [probe EXCEPT !.ret = shfe_fallback(probe.sina, probe.east)]
    /\ pc' = "returned"
    /\ UNCHANGED <<state, last_seen_links, tg_configured, now, feed, outbox, cycle,
                   stats_printed, at_start, alert_base>>

CallNext == CallSendTelegram \/ CallGetShfePrice

CallSpec == CallInit /\ [][CallNext]_vars

(***************************************************************************)
(* Properties.                                                             *)
(***************************************************************************)
\* abs(a - b) >= 0.3 for the doubles a and b, given in cents
FarApart(a, b) ==
    LET cents == Abs(a - b)
        err == IF a >= b THEN ReprErr[a] - ReprErr[b] ELSE ReprErr[b] - ReprErr[a]
    IN  cents > 30 \/ (cents = 30 /\ err >= ThresholdErr)

IsThreshold(d) == d.msg.kind = "threshold"
IsAnnouncement(d) == d.msg.kind = "announcement"

\* the step is a call of monitoring_cycle that ran to its end
CycleReturned == pc = "cycle" /\ pc' = "sleep"

\* C1: in a cycle with both prices and a benchmark already set, a threshold
\* alert is sent if and only if abs(price - benchmark) >= 0.3: a rise when the
\* price is above the benchmark, a fall when below.  When it is sent the
\* benchmark becomes the price, otherwise the benchmark stays.
C1_ThresholdAlertAndRebase ==
    [][ (CycleReturned /\ cycle'.path = "success" /\ state.benchmark_price # None) =>
        LET price == cycle'.comex
            bench == state.benchmark_price
            alerts == SelectSeq(outbox', IsThreshold)
        IN  IF FarApart(price, bench)
            THEN /\ Len(alerts) = 1
                 /\ alerts[1].msg.body.trend = (IF price > bench THEN "rise" ELSE "fall")
                 /\ alerts[1].msg.body.price = price
                 /\ state'.benchmark_price = price
            ELSE /\ Len(alerts) = 0
                 /\ state'.benchmark_price = bench ]_vars

\* a rise alert was sent and the benchmark rebased from 30.00 to 30.35
C1_Witness ==
    /\ pc = "sleep"
    /\ cycle.path = "success"
    /\ \E i \in DOMAIN outbox :
         /\ outbox[i].msg.kind = "threshold"
         /\ outbox[i].msg.body.trend = "rise"
         /\ outbox[i].msg.body.benchmark = 3000
    /\ state.benchmark_price = 3035

\* the example of the specification, run through the threshold step
ExampleStart == [MonitorState(0) EXCEPT !.benchmark_price = 3000]
ExampleNet == <<"200", "200", "200">>
ExampleFirst == threshold_alert(ExampleStart, 3035, TRUE, ExampleNet)
ExampleSecond == threshold_alert(ExampleFirst.state, 3050, TRUE, ExampleNet)
ExampleThird == threshold_alert(ExampleSecond.state, 3005, TRUE, ExampleNet)

ExampleHolds ==
    /\ Len(ExampleFirst.sent) = 1
    /\ ExampleFirst.sent[1].msg.body.trend = "rise"
    /\ ExampleFirst.state.benchmark_price = 3035
    /\ Len(ExampleSecond.sent) = 0
    /\ ExampleSecond.state.benchmark_price = 3035
    /\ Len(ExampleThird.sent) = 1
    /\ ExampleThird.sent[1].msg.body.trend = "fall"
    /\ ExampleThird.state.benchmark_price = 3005

\* C2: over the cycles that sample both prices and run to their end, a
\* threshold alert is sent exactly for the prices that are at least 0.3 away
\* from the price of the previous threshold alert (from the first price
\* sampled when there was none), and that reference is the benchmark.  With
\* the benchmark at 30.00 the samples 30.35, 30.50, 30.05 give a rise alert
\* and 30.35, no alert, a fall alert and 30.05.
C2_AlertsMeasuredFromLastAlert ==
    /\ ExampleHolds
    /\ [][ (alert_base' = state'.benchmark_price) /\
           ((CycleReturned /\ cycle'.path = "success" /\ alert_base # None) =>
              (("threshold" \in Kinds(outbox')) <=> FarApart(cycle'.comex, alert_base))) ]_vars

\* the last step of the example: 30.05 after an alert at 30.35
C2_Witness ==
    /\ pc = "sleep"
    /\ alert_base = 3005
    /\ \E i \in DOMAIN outbox :
         /\ outbox[i].msg.kind = "threshold"
         /\ outbox[i].msg.body.trend = "fall"
         /\ outbox[i].msg.body.benchmark = 3035
         /\ outbox[i].msg.body.price = 3005

\* C3: a failed cycle (a price is missing) adds one to consecutive_failures
\* and sends the degradation warning exactly when the count becomes 5; the
\* first four failures of a run, the sixth and the later ones send nothing.
C3_OneDegradationAlertPerRun ==
    [][ (CycleReturned /\ cycle'.path = "failure") =>
        /\ state'.consecutive_failures = state.consecutive_failures + 1
        /\ Len(outbox') = (IF state.consecutive_failures + 1 = 5 THEN 1 ELSE 0)
        /\ \A i \in DOMAIN outbox' : outbox'[i].msg.kind = "degraded" ]_vars

\* the fifth failure in a row sent the warning
C3_Witness ==
    /\ pc = "sleep"
    /\ cycle.path = "failure"
    /\ state.consecutive_failures = 5
    /\ CountKind(outbox, "degraded") = 1

\* C10: a cycle with both prices resets consecutive_failures and adds one to
\* total_checks and successful_checks; a failed cycle adds one to
\* consecutive_failures and total_checks and leaves successful_checks; the
\* two totals never decrease, successful_checks <= total_checks and
\* consecutive_failures <= total_checks - successful_checks.
C10_FailureStatistics ==
    [][ /\ (CycleReturned /\ cycle'.path = "success") =>
             /\ state'.consecutive_failures = 0
             /\ state'.total_checks = state.total_checks + 1
             /\ state'.successful_checks = state.successful_checks + 1
        /\ (CycleReturned /\ cycle'.path = "failure") =>
             /\ state'.consecutive_failures = state.consecutive_failures + 1
             /\ state'.total_checks = state.total_checks + 1
             /\ state'.successful_checks = state.successful_checks
        /\ state'.total_checks >= state.total_checks
        /\ state'.successful_checks >= state.successful_checks
        /\ state'.successful_checks <= state'.total_checks
        /\ state'.consecutive_failures >= 0
        /\ state'.consecutive_failures <= state'.total_checks - state'.successful_checks ]_vars

\* a failure, a good sample, a failure: one failure in a row out of two
C10_Witness ==
    /\ pc = "sleep"
    /\ cycle.path = "failure"
    /\ state.total_checks = 3
    /\ state.successful_checks = 1
    /\ state.consecutive_failures = 1

\* C4: an announcement that the monitored feed listed when the process
\* started is never the subject of an announcement alert, whatever its title.
C4_StartupAnnouncementsNeverAlert ==
    \A i \in DOMAIN outbox :
        IsAnnouncement(outbox[i]) => outbox[i].msg.body \notin at_start

\* the entries of the snapshot that check_cme_news scans
Window(entries) == SubSeq(entries, 1, IF Len(entries) < NEWS_WINDOW THEN Len(entries) ELSE NEWS_WINDOW)

\* the entry is the first of the window with its link
FirstWithLink(entries, i) == \A j \in 1..(i - 1) : entries[j].link # entries[i].link

\* the links that a pass over the entries examines unseen with a title that
\* holds a subject keyword and a margin keyword
QualifyingUnseen(entries, seen) ==
    {entries[i].link : i \in {j \in DOMAIN Window(entries) :
                                 /\ WellFormed(entries[j])
                                 /\ FirstWithLink(entries, j)
                                 /\ entries[j].link \notin seen
                                 /\ has_silver(entries[j].title)
                                 /\ has_margin(entries[j].title)}}

\* the step is one call of check_cme_news on the snapshot
NewsPass == pc \in {"fresh", "scanned", "rescanned"} /\ pc' \in {"scanned", "rescanned"}

\* C5: a pass of check_cme_news sends one announcement alert for every link
\* that it records as seen and whose title holds a subject keyword and a
\* margin keyword, and no other alert: none for a title with only one kind
\* of keyword, none for a link that was seen before.
C5_AlertOncePerQualifyingLink ==
    [][ NewsPass =>
        LET recorded == last_seen_links' \ last_seen_links
            due == QualifyingUnseen(feed, last_seen_links) \cap recorded
        IN  /\ last_seen_links \subseteq last_seen_links'
            /\ \A i \in DOMAIN outbox' : IsAnnouncement(outbox'[i])
            /\ {outbox'[i].msg.body : i \in DOMAIN outbox'} = due
            /\ Len(outbox') = Cardinality(due) ]_vars

\* C6: a second pass in a row of check_cme_news over the same snapshot sends
\* no announcement alert and leaves the seen-set as the first pass left it.
C6_SecondPassIsIdle ==
    [][ (NewsPass /\ pc # "fresh") =>
        /\ outbox' = <<>>
        /\ last_seen_links' = last_seen_links ]_vars

\* a snapshot that leads with a silver margin announcement was processed twice
C6_Witness ==
    /\ pc = "rescanned"
    /\ Len(feed) = 2
    /\ WellFormed(feed[1])
    /\ feed[1].title = TitleSilverMargin
    /\ feed[1].link \in last_seen_links
    /\ outbox = <<>>

\* C7: when the process has ended on a KeyboardInterrupt, the final
\* statistics were printed and, with Telegram configured, the shutdown
\* notification was sent, wherever the interrupt arrived.
C7_OrderlyDrainOnInterrupt ==
    pc \in {"stopped", "killed"} =>
        /\ stats_printed
        /\ tg_configured => "shutdown" \in Kinds(outbox)

\* C8: a cycle that ends in an exception is followed by the pause of the
\* except clause, then by the pause between cycles, then by the next cycle;
\* the loop is only left by a KeyboardInterrupt.
C8_FailuresNeverEndTheLoop ==
    [][ /\ (pc = "cycle" /\ cycle'.ended = "raise") => pc' = "cooldown"
        /\ pc = "cooldown" => pc' \in {"sleep", "killed"}
        /\ pc = "sleep" => pc' \in {"cycle", "killed"}
        /\ pc' \in {"stopped", "killed"} =>
              (CycleInterrupted \/ InterruptInCooldown \/ InterruptInSleep) ]_vars

\* the second cycle raised after its good sample was counted: the except
\* clause caught the exception and pauses
C8_Witness ==
    /\ pc = "cooldown"
    /\ cycle.ended = "raise"
    /\ cycle.stop = "status_log"
    /\ state.total_checks = 2

\* C9: a cycle that ends in an exception adds one to consecutive_failures,
\* and the exception alert is sent exactly when the count is then above 10.
C9_ExceptionsAreCounted ==
    [][ (pc = "cycle" /\ pc' = "cooldown") =>
        /\ state'.consecutive_failures = state.consecutive_failures + 1
        /\ ("exception" \in Kinds(outbox')) <=> (state'.consecutive_failures > 10) ]_vars

\* C11: a cycle that samples both prices while the benchmark is unset sets
\* the benchmark to its COMEX price and sends no threshold alert, whatever
\* the price.
C11_FirstSampleSetsBenchmark ==
    [][ (CycleReturned /\ cycle'.path = "success" /\ state.benchmark_price = None) =>
        /\ state'.benchmark_price = cycle'.comex
        /\ "threshold" \notin Kinds(outbox') ]_vars

\* the first good sample, after a failed one, set the benchmark to 30.35
C11_Witness ==
    /\ pc = "sleep"
    /\ cycle.path = "success"
    /\ cycle.comex = 3035
    /\ state.successful_checks = 1
    /\ state.total_checks = 2
    /\ state.benchmark_price = 3035
    /\ "threshold" \notin Kinds(outbox)

\* C12: a call of send_telegram returns a boolean and raises nothing.  With
\* the credentials set it posts at most 3 times, returns TRUE at the first
\* post answered with HTTP 200 and posts no more, and returns FALSE after 3
\* posts that failed; without the credentials it posts nothing and returns
\* FALSE.
C12_SendTelegramIsBounded ==
    (pc = "returned" /\ probe.fn = "send_telegram") =>
        LET r == probe.ret
            a == probe.answers
        IN  /\ ~r.raised
            /\ r.ok \in BOOLEAN
            /\ ~probe.configured => (r.posts = 0 /\ ~r.ok)
            /\ probe.configured =>
                  /\ r.posts \in 1..3
                  /\ \A i \in 1..(r.posts - 1) : a[i] # "200"
                  /\ r.ok <=> a[r.posts] = "200"
                  /\ ~r.ok => r.posts = 3

\* a connection error, a status 500, then a post answered with 200
C12_Witness ==
    /\ pc = "returned"
    /\ probe.fn = "send_telegram"
    /\ probe.configured
    /\ probe.answers = <<"error", "500", "200">>
    /\ probe.ret.ok
    /\ probe.ret.posts = 3

\* C13: get_shfe_price asks the primary provider first and returns its price
\* when it has one, without asking the secondary; otherwise it asks the
\* secondary and returns its price when it has one; otherwise it returns
\* None.  A price it returns lies strictly between 5000 and 8000.
C13_PrimaryThenSecondary ==
    (pc = "returned" /\ probe.fn = "get_shfe_price") =>
        LET r == probe.ret
            primary == 5000 < probe.sina /\ probe.sina < 8000
            secondary == 5000 < probe.east /\ probe.east < 8000
        IN  /\ r.called[1] = "sina"
            /\ primary => (r.price = probe.sina /\ r.called = <<"sina">>)
            /\ (~primary /\ secondary) =>
                  (r.price = probe.east /\ r.called = <<"sina", "eastmoney">>)
            /\ (~primary /\ ~secondary) =>
                  (r.price = None /\ r.called = <<"sina", "eastmoney">>)
            /\ r.price # None => (5000 < r.price /\ r.price < 8000)

\* the primary answers 4900, out of range, and the secondary 7200
C13_Witness ==
    /\ pc = "returned"
    /\ probe.fn = "get_shfe_price"
    /\ probe.sina = 4900
    /\ probe.east = 7200
    /\ probe.ret.price = 7200
    /\ probe.ret.called = <<"sina", "eastmoney">>

\* C14: a pass of check_cme_news skips the entries that lack a title or a
\* link: every other entry of the window is recorded as seen, the
\* qualifying ones among those examined unseen are alerted in that pass, and
\* a qualifying link is never recorded as seen without its alert.
C14_MalformedEntriesAreSkipped ==
    [][ NewsPass =>
        LET entries == Window(feed)
            alerted == {outbox'[i].msg.body : i \in DOMAIN outbox'}
            due == QualifyingUnseen(feed, last_seen_links)
        IN  /\ \A i \in DOMAIN entries :
                  WellFormed(entries[i]) => entries[i].link \in last_seen_links'
            /\ due \subseteq alerted
            /\ (due \cap last_seen_links') \subseteq alerted ]_vars

IsReport(d) == d.msg.kind = "report"

\* the benchmark the report and the threshold step of a cycle start from
BenchmarkAtReport == IF state.benchmark_price = None THEN cycle'.comex ELSE state.benchmark_price

\* C15: in a cycle that samples both prices and sends the hourly report, the
\* report is sent before the threshold alert of that cycle, it carries the
\* benchmark from before any rebase and the change measured against that
\* benchmark, and without a threshold alert the benchmark stays what it was.
C15_ReportBeforeThresholdAlert ==
    [][ (CycleReturned /\ cycle'.path = "success" /\ "report" \in Kinds(outbox')) =>
        LET reports == SelectSeq(outbox', IsReport)
        IN  /\ Len(reports) = 1
            /\ IsReport(outbox'[1])
            /\ reports[1].msg.body.benchmark = BenchmarkAtReport
            /\ reports[1].msg.body.change = cycle'.comex - BenchmarkAtReport
            /\ "threshold" \in Kinds(outbox') =>
                  /\ IsThreshold(outbox'[2])
                  /\ outbox'[2].msg.body.benchmark = BenchmarkAtReport
                  /\ state'.benchmark_price = cycle'.comex
            /\ "threshold" \notin Kinds(outbox') =>
                  state'.benchmark_price = BenchmarkAtReport ]_vars

\* the report and a rise alert in one cycle: the report shows the benchmark
\* 30.00 and the change 0.35, the benchmark is 30.35 afterwards
C15_Witness ==
    /\ pc = "sleep"
    /\ Len(outbox) >= 2
    /\ IsReport(outbox[1])
    /\ outbox[1].msg.body.benchmark = 3000
    /\ outbox[1].msg.body.change = 35
    /\ IsThreshold(outbox[2])
    /\ state.benchmark_price = 3035

\* C16: a cycle that samples both prices sends the hourly report, silently,
\* exactly when the clock reading of the cycle is at least REPORT_INTERVAL
\* after last_report_time, and then last_report_time becomes that reading.
\* No other step changes last_report_time, so it never decreases and two
\* reports in a row are at least REPORT_INTERVAL apart.
C16_ReportEveryInterval ==
    [][ /\ (CycleReturned /\ cycle'.path = "success") =>
             LET reports == SelectSeq(outbox', IsReport)
             IN  IF now' - state.last_report_time >= 3600
                 THEN /\ Len(reports) = 1
                      /\ reports[1].silent
                      /\ state'.last_report_time = now'
                 ELSE /\ Len(reports) = 0
                      /\ state'.last_report_time = state.last_report_time
        /\ state'.last_report_time >= state.last_report_time
        /\ state'.last_report_time # state.last_report_time =>
             /\ "report" \in Kinds(outbox')
             /\ state'.last_report_time - state.last_report_time >= 3600
        /\ "report" \in Kinds(outbox') => state'.last_report_time = now' ]_vars

\* a report at a clock reading two intervals after the start: the reading
\* became last_report_time
C16_Witness ==
    /\ pc = "sleep"
    /\ cycle.path = "success"
    /\ \E i \in DOMAIN outbox : IsReport(outbox[i]) /\ outbox[i].silent
    /\ state.last_report_time = now
    /\ now >= 2 * 3600

\* the messages of the calls of send_telegram, without their outcome
Messages(box) == [i \in DOMAIN box |-> box[i].msg]

\* C17: what send_telegram returns changes nothing else: a cycle that
\* samples both prices ends with the same state, the same seen-set and the
\* same messages whether Telegram delivers or not.  A threshold alert
\* rebases the benchmark, a report advances last_report_time and an alerted
\* announcement is in the seen-set also when the delivery failed, and an
\* announcement is only alerted when it was not in the seen-set, so a
\* message that failed is not sent again by a later cycle.
C17_DeliveryOutcomeIsIgnored ==
    [][ (CycleReturned /\ cycle'.path = "success") =>
        /\ \E reachable \in BOOLEAN, current_shfe \in ShfeAnswers \ {None} :
             \A answers \in NetSamples :
                LET r == monitoring_cycle(state, last_seen_links, cycle'.comex, current_shfe,
                                          now', ParseNewsFeed(feed, reachable),
                                          tg_configured, answers, "return")
                IN  /\ r.state = state'
                    /\ r.seen = last_seen_links'
                    /\ Messages(r.outbox) = Messages(outbox')
        /\ \A i \in DOMAIN outbox' :
             /\ IsThreshold(outbox'[i]) => state'.benchmark_price = outbox'[i].msg.body.price
             /\ IsReport(outbox'[i]) => state'.last_report_time = now'
             /\ IsAnnouncement(outbox'[i]) =>
                   /\ outbox'[i].msg.body \in last_seen_links'
                   /\ outbox'[i].msg.body \notin last_seen_links ]_vars

\* Telegram is configured and delivered neither the report, nor the rise
\* alert, nor the announcement alert of the cycle: the benchmark is rebased,
\* last_report_time advanced and the announcement seen
C17_Witness ==
    /\ pc = "sleep"
    /\ tg_configured
    /\ Len(outbox) = 3
    /\ \A i \in DOMAIN outbox : ~outbox[i].ok /\ outbox[i].posts = 3
    /\ IsReport(outbox[1])
    /\ IsThreshold(outbox[2])
    /\ IsAnnouncement(outbox[3])
    /\ state.benchmark_price = outbox[2].msg.body.price
    /\ state.last_report_time = now
    /\ outbox[3].msg.body \in last_seen_links

\* C18: a cycle in which the COMEX or the Shanghai price is missing leaves
\* benchmark_price, last_report_time, successful_checks and the seen-set
\* unchanged and sends no report, no threshold alert and no announcement
\* alert: the announcements are not scanned in that cycle.
C18_FailedCycleSkipsTheRest ==
    [][ (CycleReturned /\ cycle'.path = "failure") =>
        /\ state'.benchmark_price = state.benchmark_price
        /\ state'.last_report_time = state.last_report_time
        /\ state'.successful_checks = state.successful_checks
        /\ last_seen_links' = last_seen_links
        /\ Kinds(outbox') \subseteq {"degraded"} ]_vars

\* a failed cycle with a benchmark set, the report due and an announcement
\* on the feed that was not seen yet
C18_Witness ==
    /\ pc = "sleep"
    /\ cycle.path = "failure"
    /\ state.benchmark_price # None
    /\ now - state.last_report_time >= 3600
    /\ \E i \in DOMAIN feed : WellFormed(feed[i]) /\ feed[i].link \notin last_seen_links
    /\ outbox = <<>>

\* C19: the seen-set never loses a link, and after a pass of check_cme_news
\* every entry among the first 10 of the feed that has a title and a link
\* is in the seen-set, qualifying or not, while the pass adds no link other
\* than those of the first 10 entries.
C19_SeenSetCoversTheWindow ==
    [][ /\ last_seen_links \subseteq last_seen_links'
        /\ NewsPass =>
             /\ \A i \in DOMAIN feed :
                   (i <= 10 /\ WellFormed(feed[i])) => feed[i].link \in last_seen_links'
             /\ \A l \in last_seen_links' \ last_seen_links :
                   \E i \in DOMAIN feed : i <= 10 /\ feed[i].link = l ]_vars

\* C20: when a cycle that samples both prices has run to its end, the
\* benchmark is set and less than 0.3 away from the COMEX price of the
\* cycle; it is that price when a threshold alert was sent or the benchmark
\* was unset before.  No step other than a cycle that samples both prices
\* changes the benchmark, so it stays within the threshold of the price of
\* the last such cycle until the next one.
C20_BenchmarkNearLastPrice ==
    [][ /\ (CycleReturned /\ cycle'.path = "success") =>
             /\ state'.benchmark_price # None
             /\ ~FarApart(cycle'.comex, state'.benchmark_price)
             /\ ("threshold" \in Kinds(outbox') \/ state.benchmark_price = None) =>
                   state'.benchmark_price = cycle'.comex
        /\ cycle'.path # "success" => state'.benchmark_price = state.benchmark_price ]_vars

\* 30.50 sampled with the benchmark at 30.35: no alert, the benchmark stays
C20_Witness ==
    /\ pc = "sleep"
    /\ cycle.path = "success"
    /\ cycle.comex = 3050
    /\ state.benchmark_price = 3035
    /\ "threshold" \notin Kinds(outbox)

====
